---- MODULE Spec2Model ----
(***************************************************************************)
(* YouTube Data API helpers: the cursor-following collectors of            *)
(* channel.py, comments.py and ids.py, the one-shot lookups of channel.py, *)
(* and the batch statistics call, duration parser and chunker of           *)
(* videos.py.                                                              *)
(*                                                                         *)
(* Python values are modelled as follows.  An Optional[str] is a string,   *)
(* with None the distinguished value None.  An Optional[int] (and a raw    *)
(* JSON field that may be absent) is a sequence: <<>> when there is no     *)
(* value, <<v>> when the value is v.  A text that the code scans is a      *)
(* sequence of one-character strings.                                      *)
(***************************************************************************)
EXTENDS Integers, Sequences, FiniteSets, TLC

VARIABLES
    fn,           \* the function that was called
    api_key,      \* os.getenv("YOUTUBE_API_KEY")
    pc,           \* "call" (entered), "loop" (about to request a page), "done"
    page_token,   \* the collector's page_token
    page_count,   \* the collector's page_count
    records,      \* the collector's videos / comments list
    requests,     \* every request issued so far, in order
    responses,    \* what came back for each request, in order
    outcome,      \* "running", "returned" or "raised"
    error,        \* the exception raised, None when none
    ret,          \* the value a one-shot lookup returned
    video_ids,    \* argument of fetch_video_statistics_batch
    stats_map,    \* the mapping fetch_video_statistics_batch builds
    lst,          \* argument of chunked
    size,         \* argument of chunked
    i,            \* loop index of chunked
    chunks,       \* the chunks the generator has yielded so far
    duration,     \* argument of parse_duration_to_seconds
    parsed        \* its result, an Optional[int], once pc = "done"

vars == <<fn, api_key, pc, page_token, page_count, records, requests, responses,
          outcome, error, ret, video_ids, stats_map, lst, size, i, chunks,
          duration, parsed>>

apiVars == <<fn, api_key, pc, page_token, page_count, records, requests, responses,
             outcome, error, ret, video_ids, stats_map>>

chunkVars == <<lst, size, i, chunks>>

durationVars == <<duration, parsed>>

----------------------------------------------------------------------------
(* Bounds of the model *)

\* the largest number of page requests one collector run is followed for
MaxPages == 2

\* the largest number of raw items in one page
MaxItems == 2

\* the largest number of video ids in one batch call
MaxBatch == 2

\* the longest list handed to chunked
MaxLen == 5

\* the largest chunk size handed to chunked
MaxSize == 3

\* the longest free-form text handed to parse_duration_to_seconds
MaxText == 3

----------------------------------------------------------------------------
(* Python values *)

None == "None"

\* truth value of an Optional[str]: None and "" are false
Falsy(v) == v = None \/ v = ""

NoValue == <<>>

Some(v) == <<v>>

RECURSIVE SeqsUpTo(_, _)
\* all sequences over S of length at most n
SeqsUpTo(S, n) ==
    IF n = 0 THEN {<<>>}
    ELSE LET shorter == SeqsUpTo(S, n - 1)
         IN  shorter \cup {Append(s, x) : s \in {t \in shorter : Len(t) = n - 1}, x \in S}

RECURSIVE Flatten(_)
Flatten(ss) == IF ss = <<>> THEN <<>> ELSE Head(ss) \o Flatten(Tail(ss))

----------------------------------------------------------------------------
(* The remote API *)

HTTP_OK == 200

\* the status codes of a refused or failed request (quota, permission, outage)
ErrorStatuses == {403}

Statuses == {HTTP_OK} \cup ErrorStatuses

\* the cursor the endpoint hands out with page k, naming page k + 1
Tokens == <<"t1", "t2", "t3", "t4">>

\* Raw items of a listing page.  id is the nested identifier
\* (snippet.resourceId.videoId, snippet.topLevelComment.id) and text a nested
\* payload field (snippet.title, topLevelComment.snippet.textDisplay); the
\* last item lacks the nested object altogether.
RawItems ==
    { [id |-> "x", text |-> "tx", nested |-> TRUE],
      [id |-> "y", text |-> "ty", nested |-> TRUE],
      [id |-> None, text |-> None, nested |-> FALSE] }

Pages == SeqsUpTo(RawItems, MaxItems)

\* requests.get timed out: there is no response
TimedOut ==
    [kind |-> "timeout", status |-> 0, decodable |-> FALSE, error |-> FALSE,
     items |-> <<>>, nextPageToken |-> None]

\* a response whose body is not JSON
Undecodable(st) ==
    [kind |-> "http", status |-> st, decodable |-> FALSE, error |-> FALSE,
     items |-> <<>>, nextPageToken |-> None]

\* a JSON body that carries the application-level error marker,
\* {"error": {...}}: it has no items and no cursor
ErrorBody(st) ==
    [kind |-> "http", status |-> st, decodable |-> TRUE, error |-> TRUE,
     items |-> <<>>, nextPageToken |-> None]

\* What the endpoint may answer to the k-th request, with the given item
\* pages: any status with a body that is not JSON, an error body, or a page
\* of items with no cursor, an empty cursor or the cursor of the next page.
HttpResponses(k, pages) ==
    {Undecodable(st) : st \in Statuses}
    \cup {ErrorBody(st) : st \in Statuses}
    \cup [kind : {"http"}, status : Statuses, decodable : {TRUE},
          error : {FALSE}, items : pages, nextPageToken : {None, "", Tokens[k]}]

----------------------------------------------------------------------------
(* videos.py: parse_duration_to_seconds *)

Digits == {"0", "1", "2", "3", "4", "5", "6", "7", "8", "9"}

DigitVal(c) ==
    CASE c = "0" -> 0 [] c = "1" -> 1 [] c = "2" -> 2 [] c = "3" -> 3 [] c = "4" -> 4
      [] c = "5" -> 5 [] c = "6" -> 6 [] c = "7" -> 7 [] c = "8" -> 8 [] c = "9" -> 9

RECURSIVE IntOf(_)
\* int(text) of a text of decimal digits
IntOf(ds) ==
    IF ds = <<>> THEN 0
    ELSE 10 * IntOf(SubSeq(ds, 1, Len(ds) - 1)) + DigitVal(ds[Len(ds)])

\* Python values handed to parse_duration_to_seconds
PyNone == [type |-> "NoneType", val |-> <<>>]

PyStr(text) == [type |-> "str", val |-> text]

PyInt(digits) == [type |-> "int", val |-> digits]

RECURSIVE DigitRun(_, _)
\* how many digits \d+ consumes at position p of s (greedy)
DigitRun(s, p) ==
    IF p <= Len(s) /\ s[p] \in Digits THEN 1 + DigitRun(s, p + 1) ELSE 0

\* the group written with \d in place of \d+: exactly one digit, then the letter
GroupOneDigit(s, p, letter) ==
    IF p + 1 <= Len(s) /\ s[p] \in Digits /\ s[p + 1] = letter
    THEN [matched |-> TRUE, digits |-> <<s[p]>>, next |-> p + 2]
    ELSE [matched |-> FALSE, digits |-> <<>>, next |-> p]

\* (?:(\d+)<letter>)? tried at position p: the group matches when at least one
\* digit is followed by the letter, and otherwise consumes nothing
Group(s, p, letter) ==
    LET n == DigitRun(s, p)
    IN  IF n >= 1 /\ p + n <= Len(s) /\ s[p + n] = letter
        THEN [matched |-> TRUE, digits |-> SubSeq(s, p, p + n - 1), next |-> p + n + 1]
        ELSE [matched |-> FALSE, digits |-> <<>>, next |-> p]

\* pattern.match(duration): anchored at the start only
PatternMatch(s) ==
    IF Len(s) >= 2 /\ s[1] = "P" /\ s[2] = "T"
    THEN LET h == Group(s, 3, "H")
             m == Group(s, h.next, "M")
             sec == Group(s, m.next, "S")
         IN  [matched |-> TRUE, g1 |-> h, g2 |-> m, g3 |-> sec]
    ELSE [matched |-> FALSE]

\* int(match.group(k)) if match.group(k) else 0
GroupValue(g) == IF g.matched THEN IntOf(g.digits) ELSE 0

parse_duration_to_seconds(d) ==
    IF d.type # "str" \/ d.val = <<>> THEN NoValue
    ELSE LET match == PatternMatch(d.val)
         IN  IF ~match.matched THEN NoValue
             ELSE Some(GroupValue(match.g1) * 3600 + GroupValue(match.g2) * 60
                       + GroupValue(match.g3))

----------------------------------------------------------------------------
(* videos.py: chunked *)

\* a slice that stops one element early: lst[k : k + size - 1]
SliceShort(l, k, sz) ==
    SubSeq(l, k + 1, IF k + sz - 1 < Len(l) THEN k + sz - 1 ELSE Len(l))

\* the chunk the generator yields at loop index k: lst[k : k + size]
Slice(l, k, sz) ==
    SubSeq(l, k + 1, IF k + sz < Len(l) THEN k + sz ELSE Len(l))

----------------------------------------------------------------------------
(* videos.py: fetch_video_statistics_batch *)

SHORT_SEC == 60

STREAM_SEC == 1200

\* the decision with the 60-second threshold alone
VideoTypeSingleThreshold(duration_sec) ==
    IF duration_sec = NoValue THEN "UNKNOWN"
    ELSE IF duration_sec[1] < SHORT_SEC THEN "SHORT"
    ELSE "LONG"

\* Shorts / Long / Stream decision on duration_sec
VideoType(duration_sec) ==
    IF duration_sec = NoValue THEN "UNKNOWN"
    ELSE IF duration_sec[1] < SHORT_SEC THEN "SHORT"
    ELSE IF duration_sec[1] < STREAM_SEC THEN "LONG"
    ELSE "STREAM"

\* int(statistics.get(name, 0))
Count(field) == IF field = NoValue THEN 0 ELSE IntOf(field[1])

\* the record built for one raw item of the response
StatsRecord(item) ==
    LET duration_raw == IF item.duration = NoValue THEN PyNone
                        ELSE PyStr(item.duration[1])
        duration_sec == parse_duration_to_seconds(duration_raw)
    IN  [view_count |-> Count(item.statistics.viewCount),
         like_count |-> Count(item.statistics.likeCount),
         comment_count |-> Count(item.statistics.commentCount),
         duration_sec |-> duration_sec,
         video_type |-> VideoType(duration_sec)]

RECURSIVE BuildStatsMap(_, _)
\* the for loop over data["items"]: stats_map[video_id] = {...}, a later item
\* with the same id replacing an earlier one
BuildStatsMap(m, items) ==
    IF items = <<>> THEN m
    ELSE LET item == Head(items)
             rec == StatsRecord(item)
             m2 == [k \in DOMAIN m \cup {item.id} |-> IF k = item.id THEN rec ELSE m[k]]
         IN  BuildStatsMap(m2, Tail(items))

EmptyMap == [k \in {} |-> None]

----------------------------------------------------------------------------
(* Shared shape of the API functions *)

Collectors ==
    {"channel.get_videos_from_uploads_playlist", "comments.fetch_all_comments",
     "ids.fetch_all_comments"}

Lookups == {"channel.get_channel_id_from_handle", "channel.get_uploads_playlist_id"}

Batch == "videos.fetch_video_statistics_batch"

\* the query parameters the model keeps of a request: pageToken is set only
\* when page_token is true (None stands for an absent parameter)
Request(tok, key) == [pageToken |-> IF Falsy(tok) THEN None ELSE tok, key |-> key]

\* _get_api_key(): the key, or RuntimeError when it is not set or empty
KeyMissing(key) == Falsy(key)

\* the locals of a function after one step: where it stands, how it ended,
\* and its accumulator, cursor and page counter
Local(p, o, e, recs, tok, cnt) ==
    [pc |-> p, outcome |-> o, error |-> e, records |-> recs, page_token |-> tok,
     page_count |-> cnt]

\* an exception leaves the function
Raise(e, recs) == Local("done", "raised", e, recs, page_token, page_count)

\* break: the loop ends and the function returns its list
Break == Local("done", "returned", None, records, page_token, page_count)

\* the end of a loop iteration: page_token = data.get("nextPageToken"), break
\* when it is false, otherwise sleep and go round again
Continue(recs, tok) ==
    IF Falsy(tok)
    THEN Local("done", "returned", None, recs, tok, page_count + 1)
    ELSE Local("loop", "running", None, recs, tok, page_count + 1)

----------------------------------------------------------------------------
(* channel.py: get_videos_from_uploads_playlist *)

RECURSIVE VideoRecords(_)
\* the for loop over the page's items: an item with no videoId is skipped
VideoRecords(items) ==
    IF items = <<>> THEN <<>>
    ELSE LET item == Head(items)
             video_id == IF item.nested THEN item.id ELSE None
         IN  IF Falsy(video_id) THEN VideoRecords(Tail(items))
             ELSE <<[video_id |-> video_id, video_title |-> item.text]>>
                  \o VideoRecords(Tail(items))

\* an iteration that puts the page's records in front of the list
ChannelIterationPrepend(r) ==
    IF r.kind = "timeout" THEN Raise("Timeout", records)
    ELSE IF r.status # HTTP_OK THEN Break
    ELSE IF ~r.decodable THEN Raise("JSONDecodeError", records)
    ELSE IF r.items = <<>> THEN Break
    ELSE Continue(VideoRecords(r.items) \o records, r.nextPageToken)

\* one iteration of the while loop, given the answer r to its request
ChannelIteration(r) ==
    IF r.kind = "timeout" THEN Raise("Timeout", records)
    ELSE IF r.status # HTTP_OK THEN Break
    ELSE IF ~r.decodable THEN Raise("JSONDecodeError", records)
    ELSE IF r.items = <<>> THEN Break
    ELSE Continue(records \o VideoRecords(r.items), r.nextPageToken)

----------------------------------------------------------------------------
(* comments.py: fetch_all_comments *)

RECURSIVE CommentRecords(_)
\* the for loop over the page's items: every item is appended, a missing
\* nested field read as None through .get
CommentRecords(items) ==
    IF items = <<>> THEN <<>>
    ELSE LET item == Head(items)
         IN  <<[comment_id |-> IF item.nested THEN item.id ELSE None,
                comment_text |-> IF item.nested THEN item.text ELSE None]>>
             \o CommentRecords(Tail(items))

CommentsIteration(r) ==
    IF r.kind = "timeout" THEN Raise("Timeout", records)
    ELSE IF r.status # HTTP_OK THEN Break
    ELSE IF ~r.decodable THEN Raise("JSONDecodeError", records)
    ELSE IF r.error THEN Break
    ELSE IF r.items = <<>> THEN Break
    ELSE Continue(records \o CommentRecords(r.items), r.nextPageToken)

----------------------------------------------------------------------------
(* ids.py: fetch_all_comments *)

RECURSIVE IdsRecords(_)
\* the for loop over the page's items, indexing item["snippet"][...]: the
\* records appended before the first item that lacks the nested object
IdsRecords(items) ==
    IF items = <<>> \/ ~Head(items).nested THEN <<>>
    ELSE <<[comment_id |-> Head(items).id, comment_text |-> Head(items).text]>>
         \o IdsRecords(Tail(items))

\* the for loop hits an item that lacks the nested object: KeyError
IdsKeyError(items) == \E k \in 1..Len(items) : ~items[k].nested

\* the status code is not looked at and the request sets no timeout
IdsIteration(r) ==
    IF ~r.decodable THEN Raise("JSONDecodeError", records)
    ELSE IF r.error THEN Break
    ELSE IF r.items = <<>> THEN Break
    ELSE IF IdsKeyError(r.items) THEN Raise("KeyError", records \o IdsRecords(r.items))
    ELSE Continue(records \o IdsRecords(r.items), r.nextPageToken)

----------------------------------------------------------------------------
(* channel.py: get_channel_id_from_handle, get_uploads_playlist_id *)

\* the answer of a one-shot lookup: the id of the first item, or an exception
LookupResult(r) ==
    IF r.kind = "timeout" THEN [outcome |-> "raised", error |-> "Timeout", ret |-> None]
    ELSE IF r.status # HTTP_OK
         THEN [outcome |-> "raised", error |-> "RuntimeError", ret |-> None]
    ELSE IF ~r.decodable
         THEN [outcome |-> "raised", error |-> "JSONDecodeError", ret |-> None]
    ELSE IF r.items = <<>>
         THEN [outcome |-> "raised", error |-> "ValueError", ret |-> None]
    ELSE IF ~r.items[1].nested
         THEN [outcome |-> "raised", error |-> "KeyError", ret |-> None]
    ELSE [outcome |-> "returned", error |-> None, ret |-> r.items[1].id]

----------------------------------------------------------------------------
(* videos.py: the batch call *)

AllVideoIds == <<"v1", "v2", "v3", "v4">>

\* the video_ids lists a caller hands in: the first n ids, n up to MaxBatch
BatchInputs == {SubSeq(AllVideoIds, 1, n) : n \in 0..MaxBatch}

\* item.statistics as the endpoint sends it: counts are decimal texts, and a
\* count that is disabled or hidden is left out
StatisticsChoices ==
    { [viewCount |-> NoValue, likeCount |-> NoValue, commentCount |-> NoValue],
      [viewCount |-> Some(<<"1", "2">>), likeCount |-> NoValue,
       commentCount |-> Some(<<"3">>)],
      [viewCount |-> Some(<<"7">>), likeCount |-> Some(<<"0">>),
       commentCount |-> Some(<<"4", "0">>)] }

\* item.contentDetails.duration as the endpoint sends it, or left out
DurationChoices ==
    { NoValue,
      Some(<<"P", "T", "3", "0", "S">>),
      Some(<<"P", "T", "5", "9", "S">>),
      Some(<<"P", "T", "1", "M">>),
      Some(<<"P", "T", "1", "9", "M", "5", "9", "S">>),
      Some(<<"P", "T", "2", "0", "M">>),
      Some(<<"P", "T">>),
      Some(<<"P", "1", "D">>) }

RECURSIVE InjectiveSeqs(_)
\* the sequences of distinct elements of S
InjectiveSeqs(S) ==
    {<<>>} \cup UNION {{<<x>> \o s : s \in InjectiveSeqs(S \ {x})} : x \in S}

\* the items of a batch response: one item for each id of order, a sequence
\* of distinct requested ids (some ids possibly left out, in any order), with
\* the statistics and duration that content gives each position
StatPage(order, content) ==
    [k \in 1..Len(order) |->
        [id |-> order[k], statistics |-> content[k][1], duration |-> content[k][2]]]

IdSet(ids) == {ids[k] : k \in 1..Len(ids)}

\* a batch request that got no usable answer
BatchFailures == {TimedOut} \cup {Undecodable(st) : st \in Statuses}

\* a successful batch response with the given items
BatchPage(items) ==
    [kind |-> "http", status |-> HTTP_OK, decodable |-> TRUE, error |-> FALSE,
     items |-> items, nextPageToken |-> None]

\* what fetch_video_statistics_batch does with the answer r to its request
BatchResult(r) ==
    IF r.kind = "timeout"
    THEN [outcome |-> "raised", error |-> "Timeout", stats_map |-> EmptyMap]
    ELSE IF r.status # HTTP_OK
         THEN [outcome |-> "raised", error |-> "RuntimeError", stats_map |-> EmptyMap]
    ELSE IF ~r.decodable
         THEN [outcome |-> "raised", error |-> "JSONDecodeError", stats_map |-> EmptyMap]
    ELSE [outcome |-> "returned", error |-> None,
          stats_map |-> BuildStatsMap(EmptyMap, r.items)]

----------------------------------------------------------------------------
(* The API functions as actions *)

\* answers to the k-th request of a listing call made with a timeout
ListingResponses(k) == {TimedOut} \cup HttpResponses(k, Pages)

\* answers to a one-shot lookup
LookupResponses == {r \in ListingResponses(1) : r.nextPageToken = None}

InitApi ==
    /\ fn \in Collectors \cup Lookups \cup {Batch}
    /\ api_key \in {None, "", "k"}
    /\ pc = "call"
    /\ page_token = None
    /\ page_count = 0
    /\ records = <<>>
    /\ requests = <<>>
    /\ responses = <<>>
    /\ outcome = "running"
    /\ error = None
    /\ ret = None
    /\ video_ids \in (IF fn = Batch THEN BatchInputs ELSE {<<>>})
    /\ stats_map = EmptyMap

IdleChunk == lst = <<>> /\ size = 1 /\ i = 0 /\ chunks = <<>>

IdleDuration == duration = PyNone /\ parsed = NoValue

Init == InitApi /\ IdleChunk /\ IdleDuration

\* the assignments one step of a collector makes
Step(l, req, r) ==
    /\ pc' = l.pc
    /\ outcome' = l.outcome
    /\ error' = l.error
    /\ records' = l.records
    /\ page_token' = l.page_token
    /\ page_count' = l.page_count
    /\ requests' = Append(requests, req)
    /\ responses' = Append(responses, r)
    /\ UNCHANGED <<fn, api_key, ret, video_ids, stats_map, chunkVars, durationVars>>

\* entry of a function that reads the key through _get_api_key()
CheckedCall(next_pc) ==
    /\ pc = "call"
    /\ IF KeyMissing(api_key)
       THEN pc' = "done" /\ outcome' = "raised" /\ error' = "RuntimeError"
       ELSE pc' = next_pc /\ UNCHANGED <<outcome, error>>
    /\ UNCHANGED <<fn, api_key, page_token, page_count, records, requests, responses,
                   ret, video_ids, stats_map, chunkVars, durationVars>>

ChannelCall ==
    /\ fn = "channel.get_videos_from_uploads_playlist"
    /\ CheckedCall("loop")

ChannelPage ==
    /\ fn = "channel.get_videos_from_uploads_playlist"
    /\ pc = "loop"
    /\ Len(requests) < MaxPages
    /\ \E r \in ListingResponses(Len(requests) + 1) :
          Step(ChannelIteration(r), Request(page_token, api_key), r)

CommentsCall ==
    /\ fn = "comments.fetch_all_comments"
    /\ CheckedCall("loop")

CommentsPage ==
    /\ fn = "comments.fetch_all_comments"
    /\ pc = "loop"
    /\ Len(requests) < MaxPages
    /\ \E r \in ListingResponses(Len(requests) + 1) :
          Step(CommentsIteration(r), Request(page_token, api_key), r)

\* ids.py reads the key with os.getenv inside the loop and never checks it
IdsCall ==
    /\ fn = "ids.fetch_all_comments"
    /\ pc = "call"
    /\ pc' = "loop"
    /\ UNCHANGED <<fn, api_key, page_token, page_count, records, requests, responses,
                   outcome, error, ret, video_ids, stats_map, chunkVars, durationVars>>

IdsPage ==
    /\ fn = "ids.fetch_all_comments"
    /\ pc = "loop"
    /\ Len(requests) < MaxPages
    /\ \E r \in HttpResponses(Len(requests) + 1, Pages) :
          Step(IdsIteration(r), Request(page_token, api_key), r)

\* a one-shot lookup: key check, one request, the id out of the first item
Lookup ==
    /\ pc = "call"
    /\ IF KeyMissing(api_key)
       THEN /\ pc' = "done" /\ outcome' = "raised" /\ error' = "RuntimeError"
            /\ UNCHANGED <<requests, responses, ret>>
       ELSE \E r \in LookupResponses :
               /\ pc' = "done"
               /\ outcome' = LookupResult(r).outcome
               /\ error' = LookupResult(r).error
               /\ ret' = LookupResult(r).ret
               /\ requests' = Append(requests, Request(None, api_key))
               /\ responses' = Append(responses, r)
    /\ UNCHANGED <<fn, api_key, page_token, page_count, records, video_ids,
                   stats_map, chunkVars, durationVars>>

GetChannelIdFromHandle ==
    /\ fn = "channel.get_channel_id_from_handle"
    /\ Lookup

GetUploadsPlaylistId ==
    /\ fn = "channel.get_uploads_playlist_id"
    /\ Lookup

\* the assignments of the batch call once its request was answered by r
BatchStep(r) ==
    /\ outcome' = BatchResult(r).outcome
    /\ error' = BatchResult(r).error
    /\ stats_map' = BatchResult(r).stats_map
    /\ requests' = Append(requests, Request(None, api_key))
    /\ responses' = Append(responses, r)

FetchVideoStatisticsBatch ==
    /\ fn = Batch
    /\ pc = "call"
    /\ pc' = "done"
    /\ IF video_ids = <<>>
       THEN /\ outcome' = "returned" /\ error' = None /\ stats_map' = EmptyMap
            /\ UNCHANGED <<requests, responses>>
       ELSE IF KeyMissing(api_key)
       THEN /\ outcome' = "raised" /\ error' = "RuntimeError"
            /\ UNCHANGED <<requests, responses, stats_map>>
       ELSE \/ \E r \in BatchFailures : BatchStep(r)
            \/ \E order \in InjectiveSeqs(IdSet(video_ids)) :
                  \E content \in [1..Len(order) -> StatisticsChoices \X DurationChoices] :
                     BatchStep(BatchPage(StatPage(order, content)))
    /\ UNCHANGED <<fn, api_key, page_token, page_count, records, ret, video_ids,
                   chunkVars, durationVars>>

Next ==
    \/ ChannelCall
    \/ ChannelPage
    \/ CommentsCall
    \/ CommentsPage
    \/ IdsCall
    \/ IdsPage
    \/ GetChannelIdFromHandle
    \/ GetUploadsPlaylistId
    \/ FetchVideoStatisticsBatch

Spec == Init /\ [][Next]_vars

----------------------------------------------------------------------------
(* chunked as a generator: each step is one next() of its consumer *)

\* the API state of a run that calls a pure function f
IdleApi(f, p) ==
    /\ fn = f
    /\ pc = p
    /\ api_key = None
    /\ page_token = None
    /\ page_count = 0
    /\ records = <<>>
    /\ requests = <<>>
    /\ responses = <<>>
    /\ outcome = "running"
    /\ error = None
    /\ ret = None
    /\ video_ids = <<>>
    /\ stats_map = EmptyMap

ChunkElements == {"a", "b"}

InitChunk ==
    /\ IdleApi("videos.chunked", "loop")
    /\ IdleDuration
    /\ lst \in SeqsUpTo(ChunkElements, MaxLen)
    /\ size \in 1..MaxSize
    /\ i = 0
    /\ chunks = <<>>

\* for i in range(0, len(lst), size): yield lst[i : i + size]
ChunkedYield ==
    /\ fn = "videos.chunked"
    /\ pc = "loop"
    /\ i < Len(lst)
    /\ chunks' = Append(chunks, Slice(lst, i, size))
    /\ i' = i + size
    /\ UNCHANGED <<apiVars, lst, size, durationVars>>

\* the range is exhausted: the generator stops
ChunkedStop ==
    /\ fn = "videos.chunked"
    /\ pc = "loop"
    /\ i >= Len(lst)
    /\ pc' = "done"
    /\ outcome' = "returned"
    /\ UNCHANGED <<fn, api_key, page_token, page_count, records, requests, responses,
                   error, ret, video_ids, stats_map, chunkVars, durationVars>>

NextChunk ==
    \/ ChunkedYield
    \/ ChunkedStop

SpecChunk == InitChunk /\ [][NextChunk]_vars

----------------------------------------------------------------------------
(* parse_duration_to_seconds called on one input *)

\* the characters free-form texts are made of
Alphabet == {"P", "T", "H", "M", "S", "D", "1", "0"}

\* a field of a well-formed duration: its decimal text and the number it
\* denotes, or no field
FieldChoices ==
    { <<<<>>, 0>>, <<<<"0">>, 0>>, <<<<"1">>, 1>>, <<<<"3">>, 3>>, <<<<"0", "5">>, 5>>,
      <<<<"1", "2">>, 12>>, <<<<"4", "5">>, 45>>, <<<<"1", "0", "0">>, 100>> }

\* the text of one field: its digits and its letter, or nothing
Field(f, letter) == IF f[1] = <<>> THEN <<>> ELSE Append(f[1], letter)

\* PT[nH][nM][nS]
Render(h, m, sec) == <<"P", "T">> \o Field(h, "H") \o Field(m, "M") \o Field(sec, "S")

DurationInputs ==
    {PyNone, PyInt(<<"0">>), PyInt(<<"4", "5">>)}
    \cup {PyStr(t) : t \in SeqsUpTo(Alphabet, MaxText)}
    \cup {PyStr(Render(h, m, sec)) : h \in FieldChoices, m \in FieldChoices,
                                     sec \in FieldChoices}

InitDuration ==
    /\ IdleApi("videos.parse_duration_to_seconds", "call")
    /\ IdleChunk
    /\ duration \in DurationInputs
    /\ parsed = NoValue

ParseDuration ==
    /\ fn = "videos.parse_duration_to_seconds"
    /\ pc = "call"
    /\ pc' = "done"
    /\ outcome' = "returned"
    /\ parsed' = parse_duration_to_seconds(duration)
    /\ UNCHANGED <<fn, api_key, page_token, page_count, records, requests, responses,
                   error, ret, video_ids, stats_map, chunkVars, duration>>

NextDuration == ParseDuration

SpecDuration == InitDuration /\ [][NextDuration]_vars

----------------------------------------------------------------------------
(* Properties of chunked *)

\* C5: for every list and positive size, the chunks yielded so far are
\* contiguous slices whose concatenation is the part of lst the generator
\* has passed, and the whole of lst once it stops; no chunk is empty or
\* longer than size, every chunk but the last has exactly size elements, and an empty lst gives no chunk and no error.
C5_ChunkedCoversList ==
    LET n == Len(chunks)
        passed == IF i < Len(lst) THEN i ELSE Len(lst)
    IN  /\ Flatten(chunks) = SubSeq(lst, 1, passed)
        /\ \A k \in 1..n : Len(chunks[k]) >= 1 /\ Len(chunks[k]) <= size
        /\ \A k \in 1..n : k < n => Len(chunks[k]) = size
        /\ \A k \in 1..n : chunks[k] = SubSeq(lst, (k - 1) * size + 1,
                                              (k - 1) * size + Len(chunks[k]))
        /\ (pc = "done" => Flatten(chunks) = lst /\ outcome = "returned")
        /\ (lst = <<>> => chunks = <<>>)

\* five elements in chunks of two: two full chunks and a short last one
C5_Witness ==
    /\ pc = "done"
    /\ lst = <<"a", "b", "b", "a", "b">>
    /\ size = 2
    /\ chunks = << <<"a", "b">>, <<"b", "a">>, <<"b">> >>

----------------------------------------------------------------------------
(* Properties of parse_duration_to_seconds *)

StartsWithPT(text) == Len(text) >= 2 /\ text[1] = "P" /\ text[2] = "T"

\* C6: on an input PT[nH][nM][nS] the result is 3600*h + 60*m + s, an absent
\* field counting as 0 (so PT and PT0S give 0); on an input that is None,
\* not a string, empty or without the PT prefix the result is the no-value
\* marker, which is not 0; the call always returns.
C6_ParseDurationReference ==
    pc = "done" =>
        /\ outcome = "returned"
        /\ \A h, m, sec \in FieldChoices :
              duration = PyStr(Render(h, m, sec))
                  => parsed = Some(3600 * h[2] + 60 * m[2] + sec[2])
        /\ (duration.type # "str" \/ duration.val = <<>> \/ ~StartsWithPT(duration.val))
              => parsed = NoValue /\ parsed # Some(0)
        /\ (duration = PyStr(<<"P", "T">>) => parsed = Some(0))

\* PT1H3M parses to 3780
C6_Witness ==
    /\ pc = "done"
    /\ duration = PyStr(<<"P", "T", "1", "H", "3", "M">>)
    /\ parsed = Some(3780)

----------------------------------------------------------------------------
(* Properties of the collectors and the batch call *)

N == Len(responses)

\* a response with a success status whose JSON body has no error marker
Successful(r) == r.kind = "http" /\ r.status = HTTP_OK /\ r.decodable /\ ~r.error

\* a successful page with at least one raw item
NormalPage(r) == Successful(r) /\ r.items # <<>>

Complete(items) == \A k \in 1..Len(items) : items[k].nested

\* the record the data model gives a raw item that has all its fields
ExpectedRecord(f, item) ==
    IF f = "channel.get_videos_from_uploads_playlist"
    THEN [video_id |-> item.id, video_title |-> item.text]
    ELSE [comment_id |-> item.id, comment_text |-> item.text]

HasFields(item) == item.nested

\* the records of pages 1..n, page after page, the items of a page in order;
\* with dropIncomplete, only of the items that have their fields
ExpectedRecords(f, n, dropIncomplete) ==
    Flatten([k \in 1..n |->
        LET items == IF dropIncomplete THEN SelectSeq(responses[k].items, HasFields)
                     ELSE responses[k].items
        IN  [j \in 1..Len(items) |-> ExpectedRecord(f, items[j])]])

\* the collector goes on after the last response exactly when that response
\* carried a non-empty cursor
GovernedByCursor ==
    IF Falsy(responses[N].nextPageToken)
    THEN pc = "done" /\ outcome = "returned"
    ELSE pc = "loop" /\ outcome = "running"

Faulty(r) == r.kind = "http" /\ (r.status # HTTP_OK \/ (r.decodable /\ r.error))

\* the records a collector takes from one page
PageRecords(f, items) ==
    IF f = "channel.get_videos_from_uploads_playlist" THEN VideoRecords(items)
    ELSE IF f = "comments.fetch_all_comments" THEN CommentRecords(items)
    ELSE IdsRecords(items)

\* the records accumulated from the pages before response k
RecordsBefore(k) ==
    Flatten([j \in 1..(k - 1) |-> PageRecords(fn, responses[j].items)])

\* the collector stopped at response k and returned what it had before it
StoppedAt(k) ==
    /\ k = N
    /\ Len(requests) = k
    /\ pc = "done"
    /\ outcome = "returned"
    /\ records = RecordsBefore(k)

\* C2: in every collector a response with a non-success status or an error
\* marker is the last one: nothing is raised, no further request is issued,
\* and the result is what the earlier pages gave.
C2_FaultStopsCollection ==
    fn \in Collectors =>
        \A k \in 1..N : Faulty(responses[k]) => StoppedAt(k)

\* C3: a page request that times out is not retried and ends the collection
\* with the records of the earlier pages as the result; a timeout of the
\* batch statistics call is raised to the caller.
C3_TimeoutEndsCollection ==
    \A k \in 1..N :
        responses[k].kind = "timeout" =>
            /\ fn \in Collectors => StoppedAt(k)
            /\ fn = Batch => k = N /\ Len(requests) = k /\ outcome = "raised"

\* C4: while the API key is absent or empty no request is issued, and a
\* function that would contact the API ends with the configuration error.
C4_NoRequestWithoutKey ==
    KeyMissing(api_key) =>
        /\ requests = <<>>
        /\ pc = "done" =>
              \/ outcome = "raised" /\ error = "RuntimeError"
              \/ fn = Batch /\ video_ids = <<>>

----------------------------------------------------------------------------
(* Properties of the batch statistics call *)

\* the number a decimal text of the responses denotes
DecimalValue(text) ==
    CASE text = <<"0">> -> 0
      [] text = <<"3">> -> 3
      [] text = <<"7">> -> 7
      [] text = <<"1", "2">> -> 12
      [] text = <<"4", "0">> -> 40

\* a count of the raw item, 0 when the field is absent
ExpectedCount(field) == IF field = NoValue THEN 0 ELSE DecimalValue(field[1])

\* the seconds a raw duration of the responses denotes, no value when the
\* field is absent or is no PT duration
ExpectedSeconds(field) ==
    CASE field = NoValue -> NoValue
      [] field = Some(<<"P", "T", "3", "0", "S">>) -> Some(30)
      [] field = Some(<<"P", "T", "5", "9", "S">>) -> Some(59)
      [] field = Some(<<"P", "T", "1", "M">>) -> Some(60)
      [] field = Some(<<"P", "T", "1", "9", "M", "5", "9", "S">>) -> Some(1199)
      [] field = Some(<<"P", "T", "2", "0", "M">>) -> Some(1200)
      [] field = Some(<<"P", "T">>) -> Some(0)
      [] field = Some(<<"P", "1", "D">>) -> NoValue

\* the batch call returned the mapping built from a response
BatchReturned == fn = Batch /\ outcome = "returned" /\ N = 1

C8_ThreeTypesOnly ==
    BatchReturned =>
        \A id \in DOMAIN stats_map :
            LET rec == stats_map[id]
            IN  /\ rec.video_type \in {"SHORT", "LONG", "UNKNOWN"}
                /\ rec.video_type =
                      (IF rec.duration_sec = NoValue THEN "UNKNOWN"
                       ELSE IF rec.duration_sec[1] < 60 THEN "SHORT"
                       ELSE "LONG")

----------------------------------------------------------------------------
(* Properties of the collectors: items without their fields, and cursors *)

\* C9: in every collector, while the pages served are successful pages with
\* items, an item that lacks its nested field gives no record and no error:
\* the result holds the records of the other items, in order, and whether
\* the collector goes on is decided by the cursor of the last page alone.
C9_ItemWithoutFieldDropped ==
    (fn \in Collectors /\ N >= 1 /\ \A k \in 1..N : NormalPage(responses[k]))
    => /\ outcome # "raised"
       /\ records = ExpectedRecords(fn, N, TRUE)
       /\ Len(requests) = N
       /\ GovernedByCursor

\* request k + 1 is issued, or is the next thing the loop does
Issued(k) == k <= Len(requests) \/ (k = Len(requests) + 1 /\ pc = "loop")

\* C10: in every collector the first request carries no cursor; request
\* k + 1 is issued exactly when response k was successful, had at least one
\* raw item and carried a non-empty cursor, and then carries that cursor; no
\* cursor is requested twice.
C10_RequestFollowsCursor ==
    fn \in Collectors =>
        /\ requests # <<>> => requests[1].pageToken = None
        /\ \A k \in 1..N :
              Issued(k + 1) <=> ( /\ NormalPage(responses[k])
                                  /\ ~Falsy(responses[k].nextPageToken) )
        /\ \A k \in 1..(Len(requests) - 1) :
              requests[k + 1].pageToken = responses[k].nextPageToken
        /\ \A a, b \in 1..Len(requests) :
              a # b => requests[a].pageToken # requests[b].pageToken

====
